---- MODULE Spec2Model ----
(***************************************************************************)
(* Travel Planner RAG pipeline: the vector index (TravelVectorStore), the  *)
(* retriever (TravelRetriever), the generator (TravelGenerator) and the    *)
(* pipeline that joins them (TravelRAGPipeline).                           *)
(*                                                                         *)
(* Text is modelled by TLA+ strings (sequences of characters), Python      *)
(* dicts by functions whose DOMAIN is the set of keys present, Python      *)
(* lists by sequences, and an Optional value by a sequence of length <= 1  *)
(* (<<>> is None).  An operation that can raise returns a record with a    *)
(* "raised" flag.  The external collaborators (the ChromaDB collection,    *)
(* the sentence-transformer, the chat model) are modelled at the call      *)
(* sites: each call may raise, chosen by an input of the action.           *)
(***************************************************************************)
EXTENDS Integers, Sequences, FiniteSets, TLC

VARIABLES
    collection,   \* the ChromaDB collection "travel_knowledge": id -> record
    deleted,      \* TRUE once client.delete_collection dropped the collection
    llm,          \* the generator's self.llm: <<>> (None) or <<"ChatOpenAI">>
    environ,      \* the value of OPENAI_API_KEY in the environment of the process
    responses,    \* observed <<query, context, text>> of generate_travel_response
                  \* without a chat model
    ret,          \* the last call: [op, args, raised, value]
    writer,       \* the thread that adds: where its add_documents call stands
    reader        \* the thread that searches: where its search call stands

vars == <<collection, deleted, llm, environ, responses, ret, writer, reader>>

----------------------------------------------------------------------------
(* Bounds of the model *)

\* longest batch handed to add_documents
MaxBatch == 2
\* largest n_results asked of a search
MaxN == 2
\* longest item list handed to build_context_prompt
MaxItems == 3

----------------------------------------------------------------------------
(* Python helpers *)

None == <<>>
Some(x) == <<x>>

\* dict.get(key, default)
Get(d, key, default) == IF key \in DOMAIN d THEN d[key] ELSE default

\* str(n) for a natural number
RECURSIVE Str(_)
Str(n) ==
    IF n < 10 THEN SubSeq("0123456789", n + 1, n + 1)
    ELSE Str(n \div 10) \o SubSeq("0123456789", (n % 10) + 1, (n % 10) + 1)

\* sep.join(parts)
RECURSIVE Join(_, _)
Join(parts, sep) ==
    IF parts = <<>> THEN ""
    ELSE IF Len(parts) = 1 THEN parts[1]
    ELSE parts[1] \o sep \o Join(Tail(parts), sep)

\* sub in s
Contains(s, sub) ==
    \E i \in 1..(Len(s) - Len(sub) + 1) : SubSeq(s, i, i + Len(sub) - 1) = sub

\* s.find(sub) + 1, or 0 when sub does not occur
Find(s, sub) ==
    IF Contains(s, sub)
    THEN CHOOSE i \in 1..(Len(s) - Len(sub) + 1) :
            /\ SubSeq(s, i, i + Len(sub) - 1) = sub
            /\ \A j \in 1..(i - 1) : SubSeq(s, j, j + Len(sub) - 1) # sub
    ELSE 0

\* the characters of a text, as a list of one-character texts
Chars(s) == [i \in 1..Len(s) |-> SubSeq(s, i, i)]

\* str.lower()
LowerChar(c) ==
    LET upper == "ABCDEFGHIJKLMNOPQRSTUVWXYZ"
        lower == "abcdefghijklmnopqrstuvwxyz"
    IN IF \E i \in 1..26 : SubSeq(upper, i, i) = c
       THEN LET i == CHOOSE i \in 1..26 : SubSeq(upper, i, i) = c
            IN SubSeq(lower, i, i)
       ELSE c

Lower(s) == Join([i \in 1..Len(s) |-> LowerChar(SubSeq(s, i, i))], "")

\* the lists that hold every element of a set once: the orders in which
\* iterating a Python set may yield its elements
Orders(S) ==
    {f \in [1..Cardinality(S) -> S] : \A i, j \in 1..Cardinality(S) : f[i] = f[j] => i = j}

\* a value of a preferences dict: Python truthiness
PrefTruthy(e) == IF e.isList THEN e.items # <<>> ELSE e.items[1] # ""

\* whether ', '.join(value) raises (an element of the list is no str)
JoinRaises(e) == e.isList /\ ~e.strs

\* ', '.join(value): over the elements of a list, over the characters of a str
JoinValue(e) == Join(IF e.isList THEN e.items ELSE Chars(e.items[1]), ", ")

\* preferences.get(key): None or the entry of the key
PrefGet(preferences, key) ==
    IF \E i \in 1..Len(preferences) : preferences[i].key = key
    THEN Some(preferences[CHOOSE i \in 1..Len(preferences) : preferences[i].key = key])
    ELSE None

\* whether preferences.get(key) is truthy
PrefHas(preferences, key) ==
    PrefGet(preferences, key) # None /\ PrefTruthy(PrefGet(preferences, key)[1])

----------------------------------------------------------------------------
(* Inputs *)

DocEiffel == [content |-> "Eiffel Tower", source |-> "paris.txt", title |-> "Paris",
              destination |-> "Paris", category |-> "attractions"]
DocLouvre == [content |-> "Louvre", destination |-> "Paris", category |-> "guide"]
DocTips   == [content |-> "Pack light"]
DocBroken == [source |-> "rome.txt", destination |-> "Rome"]

Documents == {DocEiffel, DocLouvre, DocTips, DocBroken}

Batches == UNION {[1..n -> Documents] : n \in 0..MaxBatch}

Queries == {"Rome", "museums in Paris"}

\* n_results values: none, one, and the largest
NResults == {0, 1, MaxN}

\* filter_dict values handed to search: None, {}, one key
Filters == {None, Some(<<>>), Some([destination |-> "Paris"])}

\* destination_filter / category_filter values: None, "", a tag
DestinationFilters == {None, Some(""), Some("Paris")}
CategoryFilters == {None, Some("guide")}

\* items handed to build_context_prompt: what search returns for a stored
\* document, and one item whose metadata lacks keys
Items ==
    {[content |-> "Eiffel Tower",
      metadata |-> [source |-> "paris.txt", title |-> "Paris",
                    destination |-> "Paris", category |-> "attractions"],
      distance |-> 1],
     [content |-> "Louvre",
      metadata |-> [source |-> "unknown", title |-> "",
                    destination |-> "Paris", category |-> "guide"],
      distance |-> 2],
     [content |-> "Pack light", metadata |-> [title |-> "Tips"], distance |-> 3]}

ItemLists == UNION {[1..n -> Items] : n \in 0..MaxItems}

\* contexts handed to the generator
Contexts == {"", "Query: Rome\n\nNo relevant travel information found."}

\* texts the chat model may answer with
LLMTexts == {"", "Visit the Colosseum."}

\* user_preferences: a dict in insertion order, each entry a key with a str
\* value (isList FALSE, the text is items[1]) or a list value (isList TRUE);
\* strs tells whether every element of the list is a str
PrefStr(key, text) == [key |-> key, isList |-> FALSE, items |-> <<text>>, strs |-> TRUE]
PrefList(key, items) == [key |-> key, isList |-> TRUE, items |-> items, strs |-> TRUE]

PrefsEmpty == <<>>
PrefsParis ==
    <<PrefStr("destination", "Paris"), PrefStr("budget", "Mid-range"),
      PrefList("interests", <<"Museums", "Food">>)>>
PrefsStyle ==
    <<PrefStr("travel_style", "relaxed"), PrefStr("budget", ""),
      PrefList("interests", <<>>), PrefStr("duration", "7")>>
\* interests = [7]: an element that is no str
PrefsBad ==
    <<PrefStr("destination", "Paris"),
      [key |-> "interests", isList |-> TRUE, items |-> <<"7">>, strs |-> FALSE]>>

\* the fields in another order than the query parts
PrefsTrip ==
    <<PrefList("interests", <<"Food">>), PrefStr("duration", "3"),
      PrefStr("destination", "Rome")>>

Preferences == {PrefsEmpty, PrefsParis, PrefsStyle, PrefsBad, PrefsTrip}

\* destination names handed to the retriever, the empty name among them
DestinationNames == {"", "Paris", "Rome"}

\* destination names handed to the destination operations
Destinations == {"Paris", "Rome"}

\* documents with and without a destination tag, one of them tagged "General"
DocGeneral == [content |-> "Book early", destination |-> "General", category |-> "travel_tips"]
DocColosseum == [content |-> "Colosseum", destination |-> "Rome"]

TravelDocuments == {DocEiffel, DocGeneral, DocTips, DocColosseum}

TravelBatches == UNION {[1..n -> TravelDocuments] : n \in 0..MaxBatch}

\* the batches of the adding thread
WriterBatches == {<<DocLouvre>>, <<DocEiffel, DocTips>>, <<DocTips, DocBroken>>}

\* create_sample_travel_documents(): the five sample documents, each content
\* cut to its first words
create_sample_travel_documents ==
    <<[content |-> "Paris, the City of Light", source |-> "sample_paris_guide.txt",
       title |-> "Paris Travel Guide", destination |-> "Paris", category |-> "city_guide"],
      [content |-> "Tokyo, Japan's bustling capital", source |-> "sample_tokyo_guide.txt",
       title |-> "Tokyo Travel Guide", destination |-> "Tokyo", category |-> "city_guide"],
      [content |-> "New York City, the Big Apple", source |-> "sample_nyc_guide.txt",
       title |-> "New York City Travel Guide", destination |-> "New York",
       category |-> "city_guide"],
      [content |-> "Budget travel tips", source |-> "sample_budget_tips.txt",
       title |-> "Budget Travel Tips", destination |-> "general", category |-> "travel_tips"],
      [content |-> "Solo travel", source |-> "sample_solo_travel.txt",
       title |-> "Solo Travel Guide", destination |-> "general", category |-> "travel_tips"]>>

SearchTerms == {"Europe", "Asia"}

\* str(e) of an exception that reaches a handler of the pipeline
ErrorMessages == {"out of memory"}

----------------------------------------------------------------------------
(* The embedding model: SentenceTransformer.encode, a deterministic map    *)
(* from a text to a vector (here one integer coordinate).                  *)

encode(text) == Len(text)

\* the distance the collection ranks by
Distance(a, b) == IF a >= b THEN a - b ELSE b - a

----------------------------------------------------------------------------
(* The ChromaDB collection *)

EmptyCollection == [id \in {} |-> <<>>]

\* collection.add(ids, embeddings, documents, metadatas): one call for the
\* whole batch.  It raises when the collection was deleted, when the call
\* fails, or when the batch repeats an id; a record whose id is already
\* stored is skipped, the others are appended.
collection_add(coll, isDeleted, ids, embeddings, texts, metadatas, storageFails) ==
    IF isDeleted \/ storageFails
       \/ \E i, j \in 1..Len(ids) : i # j /\ ids[i] = ids[j]
    THEN [raised |-> TRUE, collection |-> coll]
    ELSE LET new == {ids[i] : i \in 1..Len(ids)} \ DOMAIN coll
             at(id) == CHOOSE i \in 1..Len(ids) : ids[i] = id
         IN [raised |-> FALSE,
             collection |->
                [id \in DOMAIN coll \cup new |->
                    IF id \in DOMAIN coll THEN coll[id]
                    ELSE [document |-> texts[at(id)],
                          metadata |-> metadatas[at(id)],
                          embedding |-> embeddings[at(id)]]]]

\* the records a where-clause selects (exact match on every key)
Matching(coll, where) ==
    {id \in DOMAIN coll :
        where = None \/
        \A k \in DOMAIN where[1] :
            k \in DOMAIN coll[id].metadata /\ coll[id].metadata[k] = where[1][k]}

\* the rankings of a set of ids by distance to the query embedding, closest
\* first; records at equal distance come in either order
RECURSIVE Rankings(_, _, _)
Rankings(coll, idset, qe) ==
    IF idset = {} THEN {<<>>}
    ELSE UNION {{<<first>> \o rest : rest \in Rankings(coll, idset \ {first}, qe)} :
                  first \in {id \in idset :
                               \A other \in idset :
                                  Distance(coll[id].embedding, qe)
                                     <= Distance(coll[other].embedding, qe)}}

\* collection.query(query_embeddings, n_results, where): the set of possible
\* outcomes.  It raises when the collection was deleted, when the call
\* fails, when n_results is not positive and when the where-clause is a
\* dict that does not hold exactly one key.
collection_query(coll, isDeleted, qe, n_results, where, queryFails) ==
    IF \/ isDeleted
       \/ queryFails
       \/ n_results <= 0
       \/ (where # None /\ Cardinality(DOMAIN where[1]) # 1)
    THEN {[raised |-> TRUE, ids |-> <<>>]}
    ELSE LET hits == Matching(coll, where)
             k == IF n_results < Cardinality(hits) THEN n_results
                  ELSE Cardinality(hits)
         IN {[raised |-> FALSE, ids |-> SubSeq(s, 1, k)] :
                s \in Rankings(coll, hits, qe)}

\* collection.count()
collection_count(coll, isDeleted, countFails) ==
    IF isDeleted \/ countFails
    THEN [raised |-> TRUE, count |-> 0]
    ELSE [raised |-> FALSE, count |-> Cardinality(DOMAIN coll)]

----------------------------------------------------------------------------
(* TravelVectorStore *)

\* the metadata add_documents derives from a document
MetadataOf(doc) ==
    [source |-> Get(doc, "source", "unknown"),
     title |-> Get(doc, "title", ""),
     destination |-> Get(doc, "destination", ""),
     category |-> Get(doc, "category", "general")]

\* the ids add_documents assigns: f"doc_{i}" over enumerate(documents)
AssignIds(documents) == [i \in 1..Len(documents) |-> "doc_" \o Str(i - 1)]

\* the embedding and the storage step of add_documents: [raised, collection]
EmbedAndStore(coll, isDeleted, ids, texts, metadatas, embedFails, storageFails) ==
    IF embedFails
    THEN [raised |-> TRUE, collection |-> coll]
    ELSE collection_add(coll, isDeleted, ids,
                        [i \in 1..Len(texts) |-> encode(texts[i])],
                        texts, metadatas, storageFails)

\* the storage step of add_documents taken one document per call of the
\* collection
StoreBatch_per_item(coll, isDeleted, documents, stored, storageFails) ==
    LET ids == AssignIds(documents)
        i == stored + 1
        r == collection_add(coll, isDeleted, <<ids[i]>>,
                            <<encode(documents[i].content)>>,
                            <<documents[i].content>>,
                            <<MetadataOf(documents[i])>>, storageFails)
    IN IF documents = <<>>
       THEN collection_add(coll, isDeleted, <<>>, <<>>, <<>>, <<>>, storageFails)
               @@ [stored |-> 0]
       ELSE r @@ [stored |-> IF r.raised THEN stored ELSE i]

\* the storage step of add_documents: the one call of collection.add with
\* the whole batch; [raised, collection, stored], stored the number of
\* documents of the batch handed to the collection so far
StoreBatch(coll, isDeleted, documents, stored, storageFails) ==
    LET n == Len(documents)
        r == collection_add(coll, isDeleted, AssignIds(documents),
                            [i \in 1..n |-> encode(documents[i].content)],
                            [i \in 1..n |-> documents[i].content],
                            [i \in 1..n |-> MetadataOf(documents[i])], storageFails)
    IN r @@ [stored |-> IF r.raised THEN stored ELSE n]

\* add_documents storing each document as the loop reaches it: the
\* documents before one without 'content' are stored before the call fails
add_documents_per_item(coll, isDeleted, documents, embedFails, storageFails) ==
    LET n == Len(documents)
        ids == AssignIds(documents)
        bad == {i \in 1..n : "content" \notin DOMAIN documents[i]}
        k == IF bad = {} THEN n
             ELSE (CHOOSE i \in bad : \A j \in bad : i <= j) - 1
        r == EmbedAndStore(coll, isDeleted, SubSeq(ids, 1, k),
                           [i \in 1..k |-> documents[i].content],
                           [i \in 1..k |-> MetadataOf(documents[i])],
                           embedFails, storageFails)
    IN [raised |-> r.raised \/ bad # {}, collection |-> r.collection, ids |-> ids]

\* add_documents whose loop starts at the second document
add_documents_skip_first(coll, isDeleted, documents, embedFails, storageFails) ==
    LET n == Len(documents)
        ids == AssignIds(documents)
        rest == IF n = 0 THEN {} ELSE 2..n
    IN IF \E i \in 1..n : "content" \notin DOMAIN documents[i]
       THEN [raised |-> TRUE, collection |-> coll, ids |-> <<>>]
       ELSE LET r == EmbedAndStore(coll, isDeleted,
                        [i \in 1..Cardinality(rest) |-> ids[i + 1]],
                        [i \in 1..Cardinality(rest) |-> documents[i + 1].content],
                        [i \in 1..Cardinality(rest) |-> MetadataOf(documents[i + 1])],
                        embedFails, storageFails)
            IN [raised |-> r.raised, collection |-> r.collection, ids |-> ids]

\* add_documents(documents): [raised, collection, ids]
add_documents(coll, isDeleted, documents, embedFails, storageFails) ==
    LET n == Len(documents)
        ids == AssignIds(documents)
    IN IF \E i \in 1..n : "content" \notin DOMAIN documents[i]
       THEN [raised |-> TRUE, collection |-> coll, ids |-> <<>>]
       ELSE LET r == EmbedAndStore(coll, isDeleted, ids,
                                   [i \in 1..n |-> documents[i].content],
                                   [i \in 1..n |-> MetadataOf(documents[i])],
                                   embedFails, storageFails)
            IN [raised |-> r.raised, collection |-> r.collection, ids |-> ids]

\* the result list built back to front
FormatResults_reversed(coll, qe, ids) ==
    [i \in 1..Len(ids) |->
        [content |-> coll[ids[Len(ids) - i + 1]].document,
         metadata |-> coll[ids[Len(ids) - i + 1]].metadata,
         distance |-> Distance(coll[ids[Len(ids) - i + 1]].embedding, qe)]]

\* the list search builds from one outcome of collection.query
FormatResults(coll, qe, ids) ==
    [i \in 1..Len(ids) |->
        [content |-> coll[ids[i]].document,
         metadata |-> coll[ids[i]].metadata,
         distance |-> Distance(coll[ids[i]].embedding, qe)]]

\* search whose except clause re-raises, as add_documents' does
search_reraise(coll, isDeleted, query, n_results, filter_dict, embedFails, queryFails) ==
    IF embedFails
    THEN {[raised |-> TRUE, value |-> <<>>]}
    ELSE LET qe == encode(query)
         IN {IF o.raised
             THEN [raised |-> TRUE, value |-> <<>>]
             ELSE [raised |-> FALSE, value |-> FormatResults(coll, qe, o.ids)] :
                o \in collection_query(coll, isDeleted, qe, n_results,
                                       filter_dict, queryFails)}

\* search that leaves n_results out of the query (the storage's default, 10)
search_ignores_n(coll, isDeleted, query, n_results, filter_dict, embedFails, queryFails) ==
    IF embedFails
    THEN {[raised |-> FALSE, value |-> <<>>]}
    ELSE LET qe == encode(query)
         IN {IF o.raised
             THEN [raised |-> FALSE, value |-> <<>>]
             ELSE [raised |-> FALSE, value |-> FormatResults(coll, qe, o.ids)] :
                o \in collection_query(coll, isDeleted, qe, 10,
                                       filter_dict, queryFails)}

\* search(query, n_results, filter_dict): the set of possible returns,
\* each [raised, value]
search(coll, isDeleted, query, n_results, filter_dict, embedFails, queryFails) ==
    IF embedFails
    THEN {[raised |-> FALSE, value |-> <<>>]}
    ELSE LET qe == encode(query)
         IN {IF o.raised
             THEN [raised |-> FALSE, value |-> <<>>]
             ELSE [raised |-> FALSE, value |-> FormatResults(coll, qe, o.ids)] :
                o \in collection_query(coll, isDeleted, qe, n_results,
                                       filter_dict, queryFails)}

\* get_collection_stats(): a dict, empty when the count cannot be read
get_collection_stats(coll, isDeleted, countFails) ==
    LET c == collection_count(coll, isDeleted, countFails)
    IN IF c.raised THEN <<>>
       ELSE [total_documents |-> c.count,
             collection_name |-> "travel_knowledge",
             persist_directory |-> "./data/embeddings"]

\* delete_collection(): [raised, collection, deleted]
delete_collection(coll, isDeleted, deleteFails) ==
    IF isDeleted \/ deleteFails
    THEN [raised |-> TRUE, collection |-> coll, deleted |-> isDeleted]
    ELSE [raised |-> FALSE, collection |-> EmptyCollection, deleted |-> TRUE]

----------------------------------------------------------------------------
(* TravelRetriever *)

\* Python truthiness of an Optional[str]
Truthy(opt) == opt # None /\ opt[1] # ""

\* the filter_dict retrieve_relevant_context builds and hands to search
BuildFilter(destination_filter, category_filter) ==
    LET d == IF Truthy(destination_filter)
             THEN [k \in {"destination"} |-> destination_filter[1]]
             ELSE <<>>
        c == IF Truthy(category_filter)
             THEN [k \in {"category"} |-> category_filter[1]]
             ELSE <<>>
        filter_dict == [k \in DOMAIN d \cup DOMAIN c |->
                            IF k \in DOMAIN c THEN c[k] ELSE d[k]]
    IN IF DOMAIN filter_dict # {} THEN Some(filter_dict) ELSE None

\* retrieve_relevant_context(query, n_results, destination_filter,
\* category_filter): the set of possible returns, each [raised, value]
retrieve_relevant_context(coll, isDeleted, query, n_results, destination_filter, category_filter, embedFails, queryFails) ==
    {IF r.raised THEN [raised |-> FALSE, value |-> <<>>] ELSE r :
        r \in search(coll, isDeleted, query, n_results,
                     BuildFilter(destination_filter, category_filter),
                     embedFails, queryFails)}

\* the block of item i with the content cut to its first characters
DocumentPart_truncated(i, doc) ==
    <<"\n--- Document " \o Str(i) \o " ---",
      "Source: " \o Get(doc.metadata, "source", "Unknown")
         \o " | " \o "Destination: " \o Get(doc.metadata, "destination", "General")
         \o " | " \o "Category: " \o Get(doc.metadata, "category", "General"),
      "Content: " \o SubSeq(doc.content, 1, 5)>>

\* the three lines build_context_prompt appends for item i
DocumentPart(i, doc) ==
    <<"\n--- Document " \o Str(i) \o " ---",
      "Source: " \o Get(doc.metadata, "source", "Unknown")
         \o " | " \o "Destination: " \o Get(doc.metadata, "destination", "General")
         \o " | " \o "Category: " \o Get(doc.metadata, "category", "General"),
      "Content: " \o doc.content>>

RECURSIVE ContextParts(_, _)
ContextParts(retrieved_docs, i) ==
    IF i > Len(retrieved_docs) THEN <<>>
    ELSE DocumentPart(i, retrieved_docs[i]) \o ContextParts(retrieved_docs, i + 1)

\* build_context_prompt whose empty case leaves the query out
build_context_prompt_without_query(query, retrieved_docs) ==
    IF retrieved_docs = <<>>
    THEN "No relevant travel information found."
    ELSE Join(<<"Query: " \o query \o "\n\nRelevant travel information:">>
                 \o ContextParts(retrieved_docs, 1), "\n")

\* build_context_prompt(query, retrieved_docs)
build_context_prompt(query, retrieved_docs) ==
    IF retrieved_docs = <<>>
    THEN "Query: " \o query \o "\n\nNo relevant travel information found."
    ELSE Join(<<"Query: " \o query \o "\n\nRelevant travel information:">>
                 \o ContextParts(retrieved_docs, 1), "\n")

\* f"{value}" of a preference value
FormatValue(e) ==
    IF e.isList
    THEN "[" \o Join([i \in 1..Len(e.items) |->
                        IF e.strs THEN "'" \o e.items[i] \o "'" ELSE e.items[i]], ", ")
             \o "]"
    ELSE e.items[1]

\* a query that also names the travel style
RecommendationQuery_with_style(user_preferences) ==
    LET part(key, before, after) ==
            IF PrefHas(user_preferences, key)
            THEN <<before \o FormatValue(PrefGet(user_preferences, key)[1]) \o after>>
            ELSE <<>>
        interests ==
            IF PrefHas(user_preferences, "interests")
            THEN <<"activities: " \o JoinValue(PrefGet(user_preferences, "interests")[1])>>
            ELSE <<>>
        query_parts == part("destination", "travel to ", "") \o part("budget", "budget ", "")
                          \o part("duration", "", " days") \o interests
                          \o part("travel_style", "style ", "")
    IN IF query_parts # <<>> THEN Join(query_parts, " ") ELSE "travel recommendations"

\* the query get_travel_recommendations builds from the preferences
RecommendationQuery(user_preferences) ==
    LET part(key, before, after) ==
            IF PrefHas(user_preferences, key)
            THEN <<before \o FormatValue(PrefGet(user_preferences, key)[1]) \o after>>
            ELSE <<>>
        interests ==
            IF PrefHas(user_preferences, "interests")
            THEN <<"activities: " \o JoinValue(PrefGet(user_preferences, "interests")[1])>>
            ELSE <<>>
        query_parts == part("destination", "travel to ", "") \o part("budget", "budget ", "")
                          \o part("duration", "", " days") \o interests
    IN IF query_parts # <<>> THEN Join(query_parts, " ") ELSE "travel recommendations"

\* user_preferences.get('destination') as the destination_filter
DestinationOf(user_preferences) ==
    IF PrefGet(user_preferences, "destination") = None THEN None
    ELSE Some(FormatValue(PrefGet(user_preferences, "destination")[1]))

\* get_travel_recommendations(user_preferences): the set of possible
\* returns, each [raised, value]
get_travel_recommendations(coll, isDeleted, user_preferences, embedFails, queryFails) ==
    IF PrefHas(user_preferences, "interests")
          /\ JoinRaises(PrefGet(user_preferences, "interests")[1])
    THEN {[raised |-> FALSE, value |-> <<>>]}
    ELSE {IF r.raised THEN [raised |-> FALSE, value |-> <<>>] ELSE r :
            r \in retrieve_relevant_context(coll, isDeleted,
                                            RecommendationQuery(user_preferences), 8,
                                            DestinationOf(user_preferences), None,
                                            embedFails, queryFails)}

\* the destinations search_destinations collects from the retrieved items
DestinationSet(results) ==
    {dest \in {Get(results[i].metadata, "destination", "") : i \in 1..Len(results)} :
        dest # "" /\ Lower(dest) # "general"}

\* search_destinations that keeps every destination it meets
retriever_search_destinations_keeps_general(coll, isDeleted, search_term, embedFails, queryFails) ==
    UNION {IF r.raised THEN {[raised |-> FALSE, value |-> <<>>]}
           ELSE {[raised |-> FALSE,
                  value |-> [i \in 1..Len(r.value) |->
                               [destination |-> Get(r.value[i].metadata, "destination", "")]]]} :
            r \in retrieve_relevant_context(coll, isDeleted,
                                            "destinations and places to visit in " \o search_term,
                                            10, None, None, embedFails, queryFails)}

\* TravelRetriever.search_destinations(search_term): the set of possible
\* returns, each [raised, value]
retriever_search_destinations(coll, isDeleted, search_term, embedFails, queryFails) ==
    UNION {IF r.raised THEN {[raised |-> FALSE, value |-> <<>>]}
           ELSE {[raised |-> FALSE,
                  value |-> [i \in 1..Len(order) |-> [destination |-> order[i]]]] :
                    order \in Orders(DestinationSet(r.value))} :
            r \in retrieve_relevant_context(coll, isDeleted,
                                            "destinations and places to visit in " \o search_term,
                                            10, None, None, embedFails, queryFails)}

\* TravelRetriever.get_destination_info(destination): the set of possible
\* returns, each [raised, value]
retriever_get_destination_info(coll, isDeleted, destination, embedFails, queryFails) ==
    {IF r.raised THEN [raised |-> FALSE, value |-> <<>>] ELSE r :
        r \in retrieve_relevant_context(coll, isDeleted,
                                        "travel guide and information about " \o destination,
                                        5, Some(destination), None, embedFails, queryFails)}

----------------------------------------------------------------------------
(* TravelGenerator *)

\* a generator that looks the credential up on every call
Variant_per_call(llmv, api_key) == IF api_key = "" THEN None ELSE Some("ChatOpenAI")

\* the chat model a generate_* call works with: self.llm as __init__ set it,
\* whatever OPENAI_API_KEY holds at the time of the call
Variant(llmv, api_key) == llmv

\* the mock response without the query
generate_mock_response_without_query(query, context) ==
    "Based on the available travel information, here's what I found for your query. The context contains relevant travel details that would help answer your question. For a complete response, please ensure the OpenAI API key is configured."

\* _generate_mock_response(query, context)
generate_mock_response(query, context) ==
    "Based on the available travel information, here's what I found for your query: '"
       \o query
       \o "'. The context contains relevant travel details that would help answer your question. For a complete response, please ensure the OpenAI API key is configured."

\* generate_travel_response answering a failed backend call with the mock
\* response
generate_travel_response_fallback(llmv, query, context, invokeFails, content) ==
    IF llmv = None \/ invokeFails
    THEN generate_mock_response(query, context)
    ELSE content

\* generate_travel_response(query, context); the chat model either raises
\* (invokeFails) or answers with content
generate_travel_response(llmv, query, context, invokeFails, content) ==
    IF llmv = None
    THEN generate_mock_response(query, context)
    ELSE IF invokeFails
    THEN "I apologize, but I encountered an error while processing your request. Please try again."
    ELSE content

\* the entries of the dict with a truthy value, in iteration order
RECURSIVE TruthyEntries(_)
TruthyEntries(preferences) ==
    IF preferences = <<>> THEN <<>>
    ELSE (IF PrefTruthy(Head(preferences)) THEN <<Head(preferences)>> ELSE <<>>)
            \o TruthyEntries(Tail(preferences))

\* _format_preferences that also writes the fields with an empty value
format_preferences_keeps_empty(preferences) ==
    LET es == preferences
    IN IF \E i \in 1..Len(es) : JoinRaises(es[i])
       THEN [raised |-> TRUE, value |-> ""]
       ELSE [raised |-> FALSE,
             value |-> Join([i \in 1..Len(es) |->
                               es[i].key \o ": "
                                  \o (IF es[i].isList THEN Join(es[i].items, ", ")
                                      ELSE es[i].items[1])], "\n")]

\* _format_preferences(preferences): [raised, value]
format_preferences(preferences) ==
    LET es == TruthyEntries(preferences)
    IN IF \E i \in 1..Len(es) : JoinRaises(es[i])
       THEN [raised |-> TRUE, value |-> ""]
       ELSE [raised |-> FALSE,
             value |-> Join([i \in 1..Len(es) |->
                               es[i].key \o ": "
                                  \o (IF es[i].isList THEN Join(es[i].items, ", ")
                                      ELSE es[i].items[1])], "\n")]

\* repr() of a preference value
ReprValue(e) ==
    IF e.isList
    THEN "[" \o Join([i \in 1..Len(e.items) |->
                        IF e.strs THEN "'" \o e.items[i] \o "'" ELSE e.items[i]], ", ")
             \o "]"
    ELSE "'" \o e.items[1] \o "'"

\* f"{preferences}": repr() of the dict
ReprDict(preferences) ==
    "{" \o Join([i \in 1..Len(preferences) |->
                   "'" \o preferences[i].key \o "': " \o ReprValue(preferences[i])], ", ")
        \o "}"

\* _generate_mock_travel_plan(preferences, context)
generate_mock_travel_plan(preferences, context) ==
    "I would create a personalized travel plan based on your preferences: "
       \o ReprDict(preferences)
       \o " and the available travel information. For a detailed plan, please ensure the OpenAI API key is configured."

\* _generate_mock_destination_summary(destination, context)
generate_mock_destination_summary(destination, context) ==
    destination
       \o " is a wonderful travel destination with many attractions and cultural experiences. Based on the available information, there are several interesting places to visit and activities to enjoy. For a detailed summary, please ensure the OpenAI API key is configured."

\* generate_travel_plan whose handler does not cover the building of the
\* message
generate_travel_plan_unguarded_message(llmv, user_preferences, context, invokeFails, content) ==
    IF llmv = None
    THEN generate_mock_travel_plan(user_preferences, context)
    ELSE IF invokeFails
    THEN "I apologize, but I encountered an error while creating your travel plan. Please try again."
    ELSE content

\* generate_travel_plan(user_preferences, context)
generate_travel_plan(llmv, user_preferences, context, invokeFails, content) ==
    IF llmv = None
    THEN generate_mock_travel_plan(user_preferences, context)
    ELSE IF format_preferences(user_preferences).raised \/ invokeFails
    THEN "I apologize, but I encountered an error while creating your travel plan. Please try again."
    ELSE content

\* generate_destination_summary(destination, context)
generate_destination_summary(llmv, destination, context, invokeFails, content) ==
    IF llmv = None
    THEN generate_mock_destination_summary(destination, context)
    ELSE IF invokeFails
    THEN "I apologize, but I encountered an error while creating the destination summary for "
            \o destination \o "."
    ELSE content

----------------------------------------------------------------------------
(* TravelRAGPipeline.  The retriever and the generator handle their own    *)
(* exceptions; build_context_prompt has no handler, so an exception raised *)
(* while the context is assembled (contextFails, with str(e) = message) is *)
(* the one that reaches the handler of the pipeline operation.             *)

\* a handler of process_query that answers with the context of an empty
\* retrieval
process_query_error_with_context(query, message) ==
    [query |-> query,
     response |-> "I apologize, but I encountered an error while processing your request: "
                     \o message,
     retrieved_documents |-> <<>>,
     context |-> build_context_prompt(query, <<>>)]

\* the dict process_query returns from its handler
process_query_error(query, message) ==
    [query |-> query,
     response |-> "I apologize, but I encountered an error while processing your request: "
                     \o message,
     retrieved_documents |-> <<>>,
     context |-> ""]

\* process_query that gives up when nothing was retrieved
process_query_needs_documents(coll, isDeleted, llmv, query, n_results, embedFails, queryFails, contextFails, message, invokeFails, content) ==
    {IF r.raised \/ contextFails \/ r.value = <<>>
     THEN [raised |-> FALSE, value |-> process_query_error(query, message)]
     ELSE LET context == build_context_prompt(query, r.value)
          IN [raised |-> FALSE,
              value |-> [query |-> query,
                         response |-> generate_travel_response(llmv, query, context,
                                                               invokeFails, content),
                         retrieved_documents |-> r.value,
                         context |-> context]] :
        r \in retrieve_relevant_context(coll, isDeleted, query, n_results, None, None,
                                        embedFails, queryFails)}

\* process_query(query, n_results): the set of possible returns, each
\* [raised, value]
process_query(coll, isDeleted, llmv, query, n_results, embedFails, queryFails, contextFails, message, invokeFails, content) ==
    {IF r.raised \/ contextFails
     THEN [raised |-> FALSE, value |-> process_query_error(query, message)]
     ELSE LET context == build_context_prompt(query, r.value)
          IN [raised |-> FALSE,
              value |-> [query |-> query,
                         response |-> generate_travel_response(llmv, query, context,
                                                               invokeFails, content),
                         retrieved_documents |-> r.value,
                         context |-> context]] :
        r \in retrieve_relevant_context(coll, isDeleted, query, n_results, None, None,
                                        embedFails, queryFails)}

\* f"travel plan for {user_preferences.get('destination', 'travel')}"
PlanQuery(user_preferences) ==
    "travel plan for "
       \o (IF PrefGet(user_preferences, "destination") = None THEN "travel"
           ELSE FormatValue(PrefGet(user_preferences, "destination")[1]))

\* the dict create_travel_plan returns from its handler
create_travel_plan_error(user_preferences, message) ==
    [user_preferences |-> user_preferences,
     travel_plan |-> "I apologize, but I encountered an error while creating your travel plan: "
                        \o message,
     recommendations |-> <<>>,
     context |-> ""]

\* whether a plan is the apology of generate_travel_plan
IsPlanApology(plan) ==
    plan = "I apologize, but I encountered an error while creating your travel plan. Please try again."

\* create_travel_plan that returns no recommendations with an apology
create_travel_plan_all_or_nothing(coll, isDeleted, llmv, user_preferences, embedFails, queryFails, contextFails, message, invokeFails, content) ==
    {IF r.raised \/ contextFails
     THEN [raised |-> FALSE, value |-> create_travel_plan_error(user_preferences, message)]
     ELSE LET context == build_context_prompt(PlanQuery(user_preferences), r.value)
              plan == generate_travel_plan(llmv, user_preferences, context,
                                           invokeFails, content)
          IN [raised |-> FALSE,
              value |-> [user_preferences |-> user_preferences,
                         travel_plan |-> plan,
                         recommendations |-> IF IsPlanApology(plan) THEN <<>> ELSE r.value,
                         context |-> context]] :
        r \in get_travel_recommendations(coll, isDeleted, user_preferences,
                                         embedFails, queryFails)}

\* create_travel_plan(user_preferences): the set of possible returns, each
\* [raised, value]
create_travel_plan(coll, isDeleted, llmv, user_preferences, embedFails, queryFails, contextFails, message, invokeFails, content) ==
    {IF r.raised \/ contextFails
     THEN [raised |-> FALSE, value |-> create_travel_plan_error(user_preferences, message)]
     ELSE LET context == build_context_prompt(PlanQuery(user_preferences), r.value)
          IN [raised |-> FALSE,
              value |-> [user_preferences |-> user_preferences,
                         travel_plan |-> generate_travel_plan(llmv, user_preferences, context,
                                                              invokeFails, content),
                         recommendations |-> r.value,
                         context |-> context]] :
        r \in get_travel_recommendations(coll, isDeleted, user_preferences,
                                         embedFails, queryFails)}

\* a handler of get_destination_info that leaves out the documents
get_destination_info_error_without_documents(destination, message) ==
    [destination |-> destination,
     summary |-> "I apologize, but I encountered an error while getting information about "
                    \o destination \o ": " \o message,
     context |-> ""]

\* the dict get_destination_info returns from its handler
get_destination_info_error(destination, message) ==
    [destination |-> destination,
     summary |-> "I apologize, but I encountered an error while getting information about "
                    \o destination \o ": " \o message,
     documents |-> <<>>,
     context |-> ""]

\* TravelRAGPipeline.get_destination_info(destination): the set of possible
\* returns, each [raised, value]
get_destination_info(coll, isDeleted, llmv, destination, embedFails, queryFails, contextFails, message, invokeFails, content) ==
    {IF r.raised \/ contextFails
     THEN [raised |-> FALSE, value |-> get_destination_info_error(destination, message)]
     ELSE LET context == build_context_prompt("information about " \o destination, r.value)
          IN [raised |-> FALSE,
              value |-> [destination |-> destination,
                         summary |-> generate_destination_summary(llmv, destination, context,
                                                                  invokeFails, content),
                         documents |-> r.value,
                         context |-> context]] :
        r \in retriever_get_destination_info(coll, isDeleted, destination,
                                             embedFails, queryFails)}

\* TravelRAGPipeline.search_destinations(search_term): the set of possible
\* returns, each [raised, value]; message is str(e) of an exception of the
\* retriever
search_destinations(coll, isDeleted, search_term, embedFails, queryFails, message) ==
    {IF r.raised
     THEN [raised |-> FALSE,
           value |-> [search_term |-> search_term, destinations |-> <<>>,
                      count |-> 0, error |-> message]]
     ELSE [raised |-> FALSE,
           value |-> [search_term |-> search_term, destinations |-> r.value,
                      count |-> Len(r.value)]] :
        r \in retriever_search_destinations(coll, isDeleted, search_term,
                                            embedFails, queryFails)}

\* add_travel_documents(documents): [raised, collection, value]; message is
\* str(e) of the exception of add_documents
add_travel_documents(coll, isDeleted, documents, embedFails, storageFails, message) ==
    LET r == add_documents(coll, isDeleted, documents, embedFails, storageFails)
    IN IF r.raised
       THEN [raised |-> FALSE, collection |-> r.collection,
             value |-> [status |-> "error", documents_added |-> 0,
                        message |-> "Error adding documents: " \o message]]
       ELSE [raised |-> FALSE, collection |-> r.collection,
             value |-> [status |-> "success", documents_added |-> Len(documents),
                        message |-> "Successfully added " \o Str(Len(documents))
                                       \o " documents to the travel knowledge base"]]

\* get_system_stats that sets up an empty collection when the statistics
\* cannot be read
get_system_stats_resetting(coll, isDeleted, countFails, model_name, temperature) ==
    [raised |-> FALSE,
     collection |-> IF collection_count(coll, isDeleted, countFails).raised
                    THEN EmptyCollection ELSE coll,
     value |-> [vector_store_stats |-> get_collection_stats(coll, isDeleted, countFails),
                model_info |-> [generator_model |-> model_name,
                                temperature |-> temperature]]]

\* get_system_stats(): [raised, collection, value]; the only call on the
\* collection is count(), which writes nothing.  Nothing in the body raises
\* (get_collection_stats handles its own exceptions), so the handler that
\* returns {'error': str(e)} is not entered.
get_system_stats(coll, isDeleted, countFails, model_name, temperature) ==
    [raised |-> FALSE,
     collection |-> coll,
     value |-> [vector_store_stats |-> get_collection_stats(coll, isDeleted, countFails),
                model_info |-> [generator_model |-> model_name,
                                temperature |-> temperature]]]

----------------------------------------------------------------------------
(* State machine *)

\* OPENAI_API_KEY values: unset, set
ApiKeys == {"", "sk-test"}

\* the state after TravelRAGPipeline.__init__ with the given OPENAI_API_KEY
Construct(api_key) ==
    /\ collection = EmptyCollection
    /\ deleted = FALSE
    /\ llm = IF api_key = "" THEN None ELSE Some("ChatOpenAI")
    /\ environ = api_key
    /\ responses = {}
    /\ ret = [op |-> "__init__", args |-> <<>>, raised |-> FALSE, value |-> <<>>]
    /\ writer = [pc |-> "idle", documents |-> <<>>, pre |-> EmptyCollection, stored |-> 0]
    /\ reader = [pc |-> "idle", query |-> "", n_results |-> 0, overlapped |-> FALSE]

Init == \E api_key \in ApiKeys : Construct(api_key)

\* construction without a credential (the index and the retriever never
\* read llm)
InitNoCredential == Construct("")

\* the collaborator call that raises during one operation, if any (the
\* embedding is computed before the storage is called, so at most one does)
AddFaults == {"none", "embed", "storage"}
SearchFaults == {"none", "embed", "query"}

AddDocuments ==
    \E documents \in Batches, fault \in AddFaults :
        LET r == add_documents(collection, deleted, documents,
                               fault = "embed", fault = "storage")
        IN /\ collection' = r.collection
           /\ ret' = [op |-> "add_documents",
                      args |-> [documents |-> documents, fault |-> fault],
                      raised |-> r.raised,
                      value |-> r.ids]
           /\ UNCHANGED <<deleted, llm, environ, responses, writer, reader>>

Search ==
    \E query \in Queries, n_results \in NResults, filter_dict \in Filters,
       fault \in SearchFaults :
        \E r \in search(collection, deleted, query, n_results, filter_dict,
                        fault = "embed", fault = "query") :
           /\ ret' = [op |-> "search",
                      args |-> [query |-> query, n_results |-> n_results,
                                filter_dict |-> filter_dict, fault |-> fault],
                      raised |-> r.raised,
                      value |-> r.value]
           /\ UNCHANGED <<collection, deleted, llm, environ, responses, writer, reader>>

GetCollectionStats ==
    \E countFails \in BOOLEAN :
        /\ ret' = [op |-> "get_collection_stats",
                   args |-> <<>>,
                   raised |-> FALSE,
                   value |-> get_collection_stats(collection, deleted, countFails)]
        /\ UNCHANGED <<collection, deleted, llm, environ, responses, writer, reader>>

DeleteCollection ==
    \E deleteFails \in BOOLEAN :
        LET r == delete_collection(collection, deleted, deleteFails)
        IN /\ collection' = r.collection
           /\ deleted' = r.deleted
           /\ ret' = [op |-> "delete_collection", args |-> <<>>,
                      raised |-> r.raised, value |-> <<>>]
           /\ UNCHANGED <<llm, environ, responses, writer, reader>>

RetrieveRelevantContext ==
    \E query \in Queries, n_results \in NResults,
       destination_filter \in DestinationFilters,
       category_filter \in CategoryFilters,
       fault \in SearchFaults :
        \E r \in retrieve_relevant_context(collection, deleted, query, n_results,
                                           destination_filter, category_filter,
                                           fault = "embed", fault = "query") :
           /\ ret' = [op |-> "retrieve_relevant_context",
                      args |-> [query |-> query, n_results |-> n_results,
                                destination_filter |-> destination_filter,
                                category_filter |-> category_filter,
                                fault |-> fault],
                      raised |-> r.raised,
                      value |-> r.value]
           /\ UNCHANGED <<collection, deleted, llm, environ, responses, writer, reader>>

BuildContextPrompt ==
    \E query \in Queries, retrieved_docs \in ItemLists :
        /\ ret' = [op |-> "build_context_prompt",
                   args |-> [query |-> query, retrieved_docs |-> retrieved_docs],
                   raised |-> FALSE,
                   value |-> build_context_prompt(query, retrieved_docs)]
        /\ UNCHANGED <<collection, deleted, llm, environ, responses, writer, reader>>

GenerateTravelResponse ==
    \E query \in Queries, context \in Contexts,
       invokeFails \in BOOLEAN, content \in LLMTexts :
        LET text == generate_travel_response(Variant(llm, environ), query, context,
                                             invokeFails, content)
        IN /\ responses' = IF llm = None THEN responses \cup {<<query, context, text>>}
                         ELSE responses
           /\ ret' = [op |-> "generate_travel_response",
                      args |-> [query |-> query, context |-> context,
                                invokeFails |-> invokeFails],
                      raised |-> FALSE,
                      value |-> text]
           /\ UNCHANGED <<collection, deleted, llm, environ, writer, reader>>

\* OPENAI_API_KEY is set, changed or removed in the environment while the
\* process runs
SetCredential ==
    \E api_key \in ApiKeys :
        /\ environ' = api_key
        /\ UNCHANGED <<collection, deleted, llm, responses, ret, writer, reader>>

FormatPreferences ==
    \E preferences \in Preferences :
        LET r == format_preferences(preferences)
        IN /\ ret' = [op |-> "_format_preferences",
                      args |-> [preferences |-> preferences],
                      raised |-> r.raised,
                      value |-> r.value]
           /\ UNCHANGED <<collection, deleted, llm, environ, responses, writer, reader>>

GenerateTravelPlan ==
    \E user_preferences \in Preferences, context \in Contexts,
       invokeFails \in BOOLEAN, content \in LLMTexts :
        /\ ret' = [op |-> "generate_travel_plan",
                   args |-> [user_preferences |-> user_preferences,
                             context |-> context, invokeFails |-> invokeFails],
                   raised |-> FALSE,
                   value |-> generate_travel_plan(Variant(llm, environ),
                                                  user_preferences, context,
                                                  invokeFails, content)]
        /\ UNCHANGED <<collection, deleted, llm, environ, responses, writer, reader>>

GenerateDestinationSummary ==
    \E destination \in Destinations, context \in Contexts,
       invokeFails \in BOOLEAN, content \in LLMTexts :
        /\ ret' = [op |-> "generate_destination_summary",
                   args |-> [destination |-> destination,
                             context |-> context, invokeFails |-> invokeFails],
                   raised |-> FALSE,
                   value |-> generate_destination_summary(Variant(llm, environ),
                                                          destination, context,
                                                          invokeFails, content)]
        /\ UNCHANGED <<collection, deleted, llm, environ, responses, writer, reader>>

\* what may go wrong during one read operation of the pipeline: the embedding
\* or the query of the retrieval (fault), the assembly of the context
\* (contextFails, with str(e) = message), the call of the chat model
\* (invokeFails); content is the answer of the chat model
Scenarios ==
    {f \in [fault : SearchFaults, contextFails : BOOLEAN, message : ErrorMessages \cup {""},
            invokeFails : BOOLEAN, content : LLMTexts] :
        /\ f.contextFails <=> f.message # ""
        /\ f.contextFails => ~f.invokeFails
        /\ (f.contextFails \/ f.invokeFails) => f.content = ""}

ProcessQuery ==
    \E query \in Queries, n_results \in NResults, f \in Scenarios :
        \E r \in process_query(collection, deleted, llm, query, n_results,
                               f.fault = "embed", f.fault = "query",
                               f.contextFails, f.message, f.invokeFails, f.content) :
           /\ ret' = [op |-> "process_query",
                      args |-> [query |-> query, n_results |-> n_results, scenario |-> f],
                      raised |-> r.raised,
                      value |-> r.value]
           /\ UNCHANGED <<collection, deleted, llm, environ, responses, writer, reader>>

CreateTravelPlan ==
    \E user_preferences \in Preferences, f \in Scenarios :
        \E r \in create_travel_plan(collection, deleted, llm, user_preferences,
                                    f.fault = "embed", f.fault = "query",
                                    f.contextFails, f.message, f.invokeFails, f.content) :
           /\ ret' = [op |-> "create_travel_plan",
                      args |-> [user_preferences |-> user_preferences, scenario |-> f],
                      raised |-> r.raised,
                      value |-> r.value]
           /\ UNCHANGED <<collection, deleted, llm, environ, responses, writer, reader>>

GetDestinationInfo ==
    \E destination \in Destinations, f \in Scenarios :
        \E r \in get_destination_info(collection, deleted, llm, destination,
                                      f.fault = "embed", f.fault = "query",
                                      f.contextFails, f.message, f.invokeFails, f.content) :
           /\ ret' = [op |-> "get_destination_info",
                      args |-> [destination |-> destination, scenario |-> f],
                      raised |-> r.raised,
                      value |-> r.value]
           /\ UNCHANGED <<collection, deleted, llm, environ, responses, writer, reader>>

SearchDestinations ==
    \E search_term \in SearchTerms, fault \in SearchFaults, message \in ErrorMessages :
        \E r \in search_destinations(collection, deleted, search_term,
                                     fault = "embed", fault = "query", message) :
           /\ ret' = [op |-> "search_destinations",
                      args |-> [search_term |-> search_term, fault |-> fault],
                      raised |-> r.raised,
                      value |-> r.value]
           /\ UNCHANGED <<collection, deleted, llm, environ, responses, writer, reader>>

AddTravelDocuments ==
    \E documents \in TravelBatches, fault \in AddFaults, message \in ErrorMessages :
        LET r == add_travel_documents(collection, deleted, documents,
                                      fault = "embed", fault = "storage", message)
        IN /\ collection' = r.collection
           /\ ret' = [op |-> "add_travel_documents",
                      args |-> [documents |-> documents, fault |-> fault],
                      raised |-> r.raised,
                      value |-> r.value]
           /\ UNCHANGED <<deleted, llm, environ, responses, writer, reader>>

\* POST /add-sample-documents
AddSampleDocuments ==
    \E fault \in AddFaults, message \in ErrorMessages :
        LET r == add_travel_documents(collection, deleted, create_sample_travel_documents,
                                      fault = "embed", fault = "storage", message)
        IN /\ collection' = r.collection
           /\ ret' = [op |-> "add_sample_documents",
                      args |-> [documents |-> create_sample_travel_documents,
                                fault |-> fault],
                      raised |-> r.raised,
                      value |-> r.value]
           /\ UNCHANGED <<deleted, llm, environ, responses, writer, reader>>

\* add_documents and search as they run on two threads over one collection:
\* a step is the code between two calls of a collaborator

\* add_documents lines 41-51: ids, texts and metadatas are collected
AddBegin ==
    \E documents \in WriterBatches :
        /\ writer.pc = "idle"
        /\ IF \E i \in 1..Len(documents) : "content" \notin DOMAIN documents[i]
           THEN /\ ret' = [op |-> "add_documents", args |-> [documents |-> documents],
                           raised |-> TRUE, value |-> <<>>]
                /\ UNCHANGED <<writer, reader>>
           ELSE /\ writer' = [pc |-> "collected", documents |-> documents,
                              pre |-> collection, stored |-> 0]
                /\ reader' = IF reader.pc = "idle" THEN reader
                             ELSE [reader EXCEPT !.overlapped = TRUE]
                /\ UNCHANGED ret
        /\ UNCHANGED <<collection, deleted, llm, environ, responses>>

\* add_documents line 54: the texts are embedded
AddEncode ==
    \E embedFails \in BOOLEAN :
        /\ writer.pc = "collected"
        /\ IF embedFails
           THEN /\ writer' = [writer EXCEPT !.pc = "idle"]
                /\ ret' = [op |-> "add_documents",
                           args |-> [documents |-> writer.documents],
                           raised |-> TRUE, value |-> <<>>]
           ELSE /\ writer' = [writer EXCEPT !.pc = "encoded"]
                /\ UNCHANGED ret
        /\ UNCHANGED <<collection, deleted, llm, environ, responses, reader>>

\* add_documents lines 57-62: the batch is handed to the collection
AddStore ==
    \E storageFails \in BOOLEAN :
        LET r == StoreBatch(collection, deleted, writer.documents, writer.stored,
                            storageFails)
        IN /\ writer.pc = "encoded"
           /\ collection' = r.collection
           /\ IF r.raised \/ r.stored = Len(writer.documents)
              THEN /\ writer' = [writer EXCEPT !.pc = "idle", !.stored = r.stored]
                   /\ ret' = [op |-> "add_documents",
                              args |-> [documents |-> writer.documents],
                              raised |-> r.raised,
                              value |-> AssignIds(writer.documents)]
              ELSE /\ writer' = [writer EXCEPT !.stored = r.stored]
                   /\ UNCHANGED ret
           /\ UNCHANGED <<deleted, llm, environ, responses, reader>>

\* delete_collection, between two calls of add_documents
Clear ==
    \E deleteFails \in BOOLEAN :
        LET r == delete_collection(collection, deleted, deleteFails)
        IN /\ writer.pc = "idle"
           /\ collection' = r.collection
           /\ deleted' = r.deleted
           /\ ret' = [op |-> "delete_collection", args |-> <<>>,
                      raised |-> r.raised, value |-> <<>>]
           /\ UNCHANGED <<llm, environ, responses, writer, reader>>

\* search line 74: the query is embedded
SearchBegin ==
    \E query \in Queries, n_results \in NResults, embedFails \in BOOLEAN :
        /\ reader.pc = "idle"
        /\ IF embedFails
           THEN /\ ret' = [op |-> "search",
                           args |-> [query |-> query, n_results |-> n_results,
                                     fault |-> "embed", overlapped |-> writer.pc # "idle"],
                           raised |-> FALSE, value |-> <<>>]
                /\ UNCHANGED reader
           ELSE /\ reader' = [pc |-> "encoded", query |-> query, n_results |-> n_results,
                              overlapped |-> writer.pc # "idle"]
                /\ UNCHANGED ret
        /\ UNCHANGED <<collection, deleted, llm, environ, responses, writer>>

\* search lines 77-92: the collection is queried and the results are formatted
SearchQuery ==
    \E queryFails \in BOOLEAN :
        \E o \in collection_query(collection, deleted, encode(reader.query),
                                  reader.n_results, None, queryFails) :
           /\ reader.pc = "encoded"
           /\ reader' = [pc |-> "idle", query |-> "", n_results |-> 0, overlapped |-> FALSE]
           /\ ret' = [op |-> "search",
                      args |-> [query |-> reader.query, n_results |-> reader.n_results,
                                fault |-> IF queryFails THEN "query" ELSE "none",
                                overlapped |-> reader.overlapped],
                      raised |-> FALSE,
                      value |-> IF o.raised THEN <<>>
                                ELSE FormatResults(collection, encode(reader.query), o.ids)]
           /\ UNCHANGED <<collection, deleted, llm, environ, responses, writer>>

Next ==
    \/ AddDocuments
    \/ Search
    \/ GetCollectionStats
    \/ DeleteCollection
    \/ RetrieveRelevantContext

Spec == InitNoCredential /\ [][Next]_vars

\* context assembly on its own
NextPrompt ==
    \/ BuildContextPrompt

SpecPrompt == Init /\ [][NextPrompt]_vars

\* the generator on its own
NextGenerator ==
    \/ GenerateTravelResponse
    \/ GenerateTravelPlan
    \/ GenerateDestinationSummary
    \/ FormatPreferences
    \/ SetCredential

SpecGenerator == Init /\ [][NextGenerator]_vars

GetTravelRecommendations ==
    \E user_preferences \in Preferences, fault \in SearchFaults :
        \E r \in get_travel_recommendations(collection, deleted, user_preferences,
                                            fault = "embed", fault = "query") :
           /\ ret' = [op |-> "get_travel_recommendations",
                      args |-> [user_preferences |-> user_preferences, fault |-> fault],
                      raised |-> r.raised,
                      value |-> r.value]
           /\ UNCHANGED <<collection, deleted, llm, environ, responses, writer, reader>>

RetrieverGetDestinationInfo ==
    \E destination \in DestinationNames, fault \in SearchFaults :
        \E r \in retriever_get_destination_info(collection, deleted, destination,
                                                fault = "embed", fault = "query") :
           /\ ret' = [op |-> "retriever.get_destination_info",
                      args |-> [destination |-> destination, fault |-> fault],
                      raised |-> r.raised,
                      value |-> r.value]
           /\ UNCHANGED <<collection, deleted, llm, environ, responses, writer, reader>>

\* the defaults of TravelGenerator.__init__: model_name, and temperature
\* 0.7 written as a text
DefaultModelName == "gpt-3.5-turbo"
DefaultTemperature == "0.7"

GetSystemStats ==
    \E countFails \in BOOLEAN :
        LET r == get_system_stats(collection, deleted, countFails,
                                  DefaultModelName, DefaultTemperature)
        IN /\ collection' = r.collection
           /\ ret' = [op |-> "get_system_stats",
                      args |-> [countFails |-> countFails],
                      raised |-> r.raised,
                      value |-> r.value]
           /\ UNCHANGED <<deleted, llm, environ, responses, writer, reader>>

\* the read operations of the pipeline over the sample knowledge base
NextPipeline ==
    \/ AddSampleDocuments
    \/ ProcessQuery
    \/ CreateTravelPlan
    \/ GetDestinationInfo
    \/ SearchDestinations
    \/ GetSystemStats

SpecPipeline == Init /\ [][NextPipeline]_vars

\* ingestion through the pipeline and the search for destinations
NextKnowledge ==
    \/ AddTravelDocuments
    \/ SearchDestinations

SpecKnowledge == InitNoCredential /\ [][NextKnowledge]_vars

\* the retriever over a knowledge base of tagged and untagged documents
NextRetriever ==
    \/ AddTravelDocuments
    \/ GetTravelRecommendations
    \/ RetrieverGetDestinationInfo

SpecRetriever == InitNoCredential /\ [][NextRetriever]_vars

\* an adding and a searching thread over one collection
NextConcurrent ==
    \/ AddBegin
    \/ AddEncode
    \/ AddStore
    \/ Clear
    \/ SearchBegin
    \/ SearchQuery

SpecConcurrent == InitNoCredential /\ [][NextConcurrent]_vars

----------------------------------------------------------------------------
(* Claims *)

\* whether a document of the batch has no 'content'
LacksContent(documents) ==
    \E i \in 1..Len(documents) : "content" \notin DOMAIN documents[i]

\* C1: when add_documents fails for a batch (a document has no 'content',
\* the embedding step raises, or the storage step raises) the call raises
\* and the indexed records are exactly those before the call.
C1_FailedAddLeavesIndexUnchanged ==
    [][ret'.op = "add_documents" =>
          /\ (LacksContent(ret'.args.documents) \/ ret'.args.fault # "none")
                => ret'.raised
          /\ ret'.raised => collection' = collection]_vars

\* C1 witness: a batch whose second document has no 'content' failed on an
\* index that holds records.
C1_Witness ==
    /\ ret.op = "add_documents"
    /\ ret.raised
    /\ Len(ret.args.documents) = 2
    /\ "content" \in DOMAIN ret.args.documents[1]
    /\ "content" \notin DOMAIN ret.args.documents[2]
    /\ DOMAIN collection # {}

\* C2: after a batch D is added by one add_documents call to an empty index,
\* get_collection_stats()['total_documents'] is |D|; a failed add_documents
\* call leaves the statistics as they were.
C2_StatsCountBatch ==
    [][ret'.op = "add_documents" =>
          /\ (~ret'.raised /\ DOMAIN collection = {}) =>
                get_collection_stats(collection', deleted', FALSE).total_documents
                   = Len(ret'.args.documents)
          /\ ret'.raised =>
                get_collection_stats(collection', deleted', FALSE)
                   = get_collection_stats(collection, deleted, FALSE)]_vars

\* C2 witness: a batch of two different documents was added, the index holds
\* exactly the two of them, and the statistics report two.
C2_Witness ==
    /\ ret.op = "add_documents"
    /\ ~ret.raised
    /\ Len(ret.args.documents) = 2
    /\ ret.args.documents[1] # ret.args.documents[2]
    /\ \A i \in 1..2 :
          collection[ret.value[i]].document = ret.args.documents[i].content
    /\ get_collection_stats(collection, deleted, FALSE).total_documents = 2

\* C3: an id assigned to a document by an earlier add_documents call is
\* never assigned again to a document of a later batch: the ids a
\* successful call assigns are not ids the index already holds.
C3_IdsNeverReassigned ==
    [][(ret'.op = "add_documents" /\ ~ret'.raised) =>
          \A i \in DOMAIN ret'.value : ret'.value[i] \notin DOMAIN collection]_vars

\* C4: search never raises; on an empty index, or when the embedding step
\* or the storage query raises, it returns the empty list.
C4_SearchNeverRaises ==
    ret.op = "search" =>
        /\ ~ret.raised
        /\ (DOMAIN collection = {} \/ ret.args.fault # "none") => ret.value = <<>>

\* C4 witness: the storage query raised on an index that holds records, for
\* a request that would otherwise have returned some.
C4_Witness ==
    /\ ret.op = "search"
    /\ ret.args.fault = "query"
    /\ ret.args.n_results > 0
    /\ ret.args.filter_dict = None
    /\ DOMAIN collection # {}
    /\ ret.value = <<>>

\* C5: the list returned by search and by retrieve_relevant_context has at
\* most n_results items.
C5_AtMostNResults ==
    ret.op \in {"search", "retrieve_relevant_context"} =>
        Len(ret.value) <= ret.args.n_results

\* C5 witness: a search for one result on an index of at least two records
\* returned one item.
C5_Witness ==
    /\ ret.op = "search"
    /\ ret.args.n_results = 1
    /\ ret.args.filter_dict = None
    /\ Cardinality(DOMAIN collection) >= 2
    /\ Len(ret.value) = 1

\* the filter_dict of the last search or retrieve_relevant_context call
LastWhere ==
    IF ret.op = "search" THEN ret.args.filter_dict
    ELSE BuildFilter(ret.args.destination_filter, ret.args.category_filter)

\* C6: retrieve_relevant_context combines its filters conjunctively: every
\* returned item's metadata equals every supplied filter value, and with
\* both filters supplied the result is the (up to n_results) most relevant
\* records whose destination and category both equal the filter values.
C6_FiltersConjunctive ==
    ret.op = "retrieve_relevant_context" =>
        LET a == ret.args
            wantD == Truthy(a.destination_filter)
            wantC == Truthy(a.category_filter)
            both == {id \in DOMAIN collection :
                        /\ collection[id].metadata.destination = a.destination_filter[1]
                        /\ collection[id].metadata.category = a.category_filter[1]}
            k == IF a.n_results < Cardinality(both) THEN a.n_results
                 ELSE Cardinality(both)
            qe == encode(a.query)
        IN /\ \A i \in DOMAIN ret.value :
                /\ wantD => ret.value[i].metadata.destination = a.destination_filter[1]
                /\ wantC => ret.value[i].metadata.category = a.category_filter[1]
           /\ (wantD /\ wantC /\ a.fault = "none" /\ ~deleted) =>
                /\ Len(ret.value) = k
                /\ \A id \in both : \A i \in DOMAIN ret.value :
                      Distance(collection[id].embedding, qe) < ret.value[i].distance
                         => \E j \in DOMAIN ret.value :
                               /\ ret.value[j].content = collection[id].document
                               /\ ret.value[j].metadata = collection[id].metadata

\* C7: the items of one result are in non-increasing relevance order, and
\* they are the records of the storage's ranking, in its order, each once.
C7_RankOrderPreserved ==
    ret.op \in {"search", "retrieve_relevant_context"} =>
        LET a == ret.args
            qe == encode(a.query)
            outs == collection_query(collection, deleted, qe, a.n_results,
                                     LastWhere, a.fault = "query")
        IN /\ \A i, j \in DOMAIN ret.value :
                i < j => ret.value[i].distance <= ret.value[j].distance
           /\ a.fault # "embed" =>
                \E o \in outs :
                    /\ Len(ret.value) = Len(o.ids)
                    /\ \A i \in DOMAIN ret.value :
                          /\ ret.value[i].content = collection[o.ids[i]].document
                          /\ ret.value[i].metadata = collection[o.ids[i]].metadata
                          /\ ret.value[i].distance
                                = Distance(collection[o.ids[i]].embedding, qe)

\* C7 witness: retrieve_relevant_context returned two different records, the
\* closer one first.
C7_Witness ==
    /\ ret.op = "retrieve_relevant_context"
    /\ Len(ret.value) = 2
    /\ ret.value[1].content # ret.value[2].content
    /\ ret.value[1].distance < ret.value[2].distance

\* C8 as stated: build_context_prompt(q, []) contains the literal
\* "no relevant" and the query text.
C8_EmptyPromptHasLowerCaseMarker ==
    (ret.op = "build_context_prompt" /\ ret.args.retrieved_docs = <<>>) =>
        /\ Contains(ret.value, "no relevant")
        /\ Contains(ret.value, ret.args.query)

\* C8 amended: build_context_prompt(q, []) contains the literal
\* "No relevant travel information found." and the query text.
C8_EmptyPromptHasMarker ==
    (ret.op = "build_context_prompt" /\ ret.args.retrieved_docs = <<>>) =>
        /\ Contains(ret.value, "No relevant travel information found.")
        /\ Contains(ret.value, ret.args.query)

\* C8 witness: a prompt was built for a query and no items.
C8_Witness ==
    /\ ret.op = "build_context_prompt"
    /\ ret.args.retrieved_docs = <<>>
    /\ ret.args.query = "museums in Paris"

\* the header line of block k
BlockMarker(k) == "--- Document " \o Str(k) \o " ---"

\* C9: for a non-empty item list the prompt holds one block per item, in
\* input order, and block k ends with the whole content of item k.
C9_BlocksInOrderWithFullContent ==
    (ret.op = "build_context_prompt" /\ ret.args.retrieved_docs # <<>>) =>
        LET docs == ret.args.retrieved_docs
            v == ret.value
            n == Len(docs)
        IN /\ ~Contains(v, BlockMarker(n + 1))
           /\ \A k \in 1..n :
                LET from == Find(v, BlockMarker(k))
                    to == IF k < n THEN Find(v, "\n" \o BlockMarker(k + 1)) - 1
                          ELSE Len(v)
                    seg == SubSeq(v, from, to)
                    tail == "\nContent: " \o docs[k].content
                               \o (IF k < n THEN "\n" ELSE "")
                IN /\ from > 0
                   /\ from <= to
                   /\ Len(seg) >= Len(tail)
                   /\ SubSeq(seg, Len(seg) - Len(tail) + 1, Len(seg)) = tail
                   /\ Contains(v, docs[k].content)

\* C9 witness: a prompt was built for two different items.
C9_Witness ==
    /\ ret.op = "build_context_prompt"
    /\ Len(ret.args.retrieved_docs) = 2
    /\ ret.args.retrieved_docs[1].content = "Louvre"
    /\ ret.args.retrieved_docs[2].content = "Eiffel Tower"

\* C10: with llm None, every text generate_travel_response returned is
\* non-empty and contains the query, and calls with the same (query,
\* context) returned the same text.
C10_MockDeterministic ==
    llm = None =>
        \A r \in responses :
            /\ r[3] # ""
            /\ Contains(r[3], r[1])
            /\ \A r2 \in responses : (r2[1] = r[1] /\ r2[2] = r[2]) => r2[3] = r[3]

\* C10 witness: without a credential, generate_travel_response answered for
\* every (query, context).
C10_Witness ==
    /\ llm = None
    /\ ret.op = "generate_travel_response"
    /\ \A q \in Queries, c \in Contexts : \E r \in responses : r[1] = q /\ r[2] = c

\* the last call was a generator operation with a chat model, and the
\* building of the message or the call of the chat model raised
GenerationFailed ==
    /\ ret.op \in {"generate_travel_response", "generate_travel_plan",
                   "generate_destination_summary"}
    /\ llm # None
    /\ \/ ret.args.invokeFails
       \/ /\ ret.op = "generate_travel_plan"
          /\ format_preferences(ret.args.user_preferences).raised

\* the phrase by which the apology of an operation names the operation
ApologyPhrase ==
    IF ret.op = "generate_travel_response" THEN "while processing your request"
    ELSE IF ret.op = "generate_travel_plan" THEN "while creating your travel plan"
    ELSE "while creating the destination summary for " \o ret.args.destination

\* C11: generate_travel_response, generate_travel_plan and
\* generate_destination_summary never raise; when the building of the message
\* or the call of the chat model raises, the text returned is an apology that
\* names the operation that failed.
C11_GeneratorFailureGivesApology ==
    /\ ret.op \in {"generate_travel_response", "generate_travel_plan",
                   "generate_destination_summary"} => ~ret.raised
    /\ GenerationFailed =>
          /\ Find(ret.value, "I apologize, but I encountered an error") = 1
          /\ Contains(ret.value, ApologyPhrase)

\* C11 witness: with a chat model, generate_travel_plan got preferences whose
\* interests hold a non-str element, the chat model itself was fine, and the
\* plan returned is the apology.
C11_Witness ==
    /\ llm # None
    /\ ret.op = "generate_travel_plan"
    /\ ret.args.user_preferences = PrefsBad
    /\ ~ret.args.invokeFails
    /\ ~ret.raised
    /\ Contains(ret.value, "while creating your travel plan")

\* what the variant without a chat model answers for the input of the last
\* call of generate_travel_response or generate_travel_plan
MockOutput ==
    IF ret.op = "generate_travel_response"
    THEN generate_mock_response(ret.args.query, ret.args.context)
    ELSE generate_mock_travel_plan(ret.args.user_preferences, ret.args.context)

\* C12 as stated: with a chat model whose call fails, generate_travel_response
\* and generate_travel_plan return the text of the variant without a chat
\* model for the same input.
C12_LiveFailureFallsBackToMock ==
    (/\ ret.op \in {"generate_travel_response", "generate_travel_plan"}
     /\ llm # None
     /\ ret.args.invokeFails)
        => ret.value = MockOutput

\* C12 amended: with a chat model whose call fails, generate_travel_response
\* and generate_travel_plan return their fixed apology, which is not the text
\* of the variant without a chat model and does not depend on the input.
C12_LiveFailureGivesApologyNotMock ==
    (/\ ret.op \in {"generate_travel_response", "generate_travel_plan"}
     /\ llm # None
     /\ ret.args.invokeFails)
        => /\ ret.value # MockOutput
           /\ ret.value =
                 IF ret.op = "generate_travel_response"
                 THEN "I apologize, but I encountered an error while processing your request. Please try again."
                 ELSE "I apologize, but I encountered an error while creating your travel plan. Please try again."

\* C12 witness: with a chat model whose call failed, generate_travel_response
\* returned its apology.
C12_Witness ==
    /\ llm # None
    /\ ret.op = "generate_travel_response"
    /\ ret.args.invokeFails
    /\ Contains(ret.value, "I apologize")

\* the retrieval of the last process_query failed: the embedding or the
\* query of the index raised
RetrievalFailed ==
    \/ ret.args.scenario.fault # "none"
    \/ ret.args.n_results <= 0

\* C13: when the search of the index fails, process_query still assembles
\* the context and generates: it returns retrieved_documents = [], the
\* context built from the empty list and the text of the generator.
C13_RetrievalFailureDoesNotAbort ==
    (/\ ret.op = "process_query"
     /\ RetrievalFailed
     /\ ~ret.args.scenario.contextFails)
        => /\ ~ret.raised
           /\ ret.value.retrieved_documents = <<>>
           /\ ret.value.context = build_context_prompt(ret.args.query, <<>>)
           /\ ret.value.response =
                 generate_travel_response(llm, ret.args.query, ret.value.context,
                                          ret.args.scenario.invokeFails,
                                          ret.args.scenario.content)

\* C13 witness: over the sample knowledge base the query of the index
\* raised, and process_query returned the answer of the chat model with no
\* documents.
C13_Witness ==
    /\ Cardinality(DOMAIN collection) = 5
    /\ llm # None
    /\ ret.op = "process_query"
    /\ ret.args.scenario.fault = "query"
    /\ ret.args.n_results = 1
    /\ ret.value.retrieved_documents = <<>>
    /\ ret.value.response = "Visit the Colosseum."
    /\ Contains(ret.value.context, "No relevant travel information found.")

\* C14: when an exception reaches the handler of process_query, the result
\* has the four fields of a success, query is the input query, response is an
\* apology, retrieved_documents is [] and context is "".
C14_HandlerResultOfProcessQuery ==
    (ret.op = "process_query" /\ ret.args.scenario.contextFails)
        => /\ DOMAIN ret.value = {"query", "response", "retrieved_documents", "context"}
           /\ ret.value.query = ret.args.query
           /\ Find(ret.value.response, "I apologize") = 1
           /\ ret.value.retrieved_documents = <<>>
           /\ ret.value.context = ""

\* C14 witness: over the sample knowledge base the retrieval was fine, the
\* assembly of the context raised, and process_query returned the dict of
\* its handler.
C14_Witness ==
    /\ Cardinality(DOMAIN collection) = 5
    /\ ret.op = "process_query"
    /\ ret.args.scenario.fault = "none"
    /\ ret.args.n_results = 1
    /\ ret.args.scenario.contextFails
    /\ Contains(ret.value.response, "out of memory")

\* the lists get_travel_recommendations may return for the last
\* create_travel_plan
Retrieved ==
    {r.value : r \in get_travel_recommendations(collection, deleted,
                                                ret.args.user_preferences,
                                                ret.args.scenario.fault = "embed",
                                                ret.args.scenario.fault = "query")}

\* C15: in create_travel_plan, when only the generation fails, recommendations
\* is the retrieved list and travel_plan is the apology of the generator;
\* recommendations is empty only when the retrieval produced nothing or the
\* whole operation failed.
C15_RecommendationsSurviveGenerationFailure ==
    ret.op = "create_travel_plan" =>
        /\ (/\ ~ret.args.scenario.contextFails
            /\ llm # None
            /\ \/ ret.args.scenario.invokeFails
               \/ format_preferences(ret.args.user_preferences).raised)
              => /\ ret.value.recommendations \in Retrieved
                 /\ IsPlanApology(ret.value.travel_plan)
                 /\ ret.value.context =
                       build_context_prompt(PlanQuery(ret.args.user_preferences),
                                            ret.value.recommendations)
        /\ ret.value.recommendations = <<>>
              => (ret.args.scenario.contextFails \/ <<>> \in Retrieved)

\* C15 witness: over the sample knowledge base the retrieval for Paris found
\* a document, the call of the chat model raised, and create_travel_plan
\* returned the document with the apology.
C15_Witness ==
    /\ llm # None
    /\ ret.op = "create_travel_plan"
    /\ ret.args.user_preferences = PrefsParis
    /\ ret.args.scenario.fault = "none"
    /\ ret.args.scenario.invokeFails
    /\ Len(ret.value.recommendations) = 1
    /\ ret.value.recommendations[1].metadata.destination = "Paris"
    /\ IsPlanApology(ret.value.travel_plan)

\* the fields of the success shape of the read operations
SuccessFields ==
    IF ret.op = "process_query"
    THEN {"query", "response", "retrieved_documents", "context"}
    ELSE IF ret.op = "create_travel_plan"
    THEN {"user_preferences", "travel_plan", "recommendations", "context"}
    ELSE IF ret.op = "get_destination_info"
    THEN {"destination", "summary", "documents", "context"}
    ELSE {"search_term", "destinations", "count"}

\* C16: process_query, create_travel_plan, get_destination_info and
\* search_destinations return for every input and every failure of the
\* index, the retriever or the generator; they never raise, and the result
\* carries every field of the success shape.
C16_ReadOperationsFullyShaped ==
    ret.op \in {"process_query", "create_travel_plan", "get_destination_info",
                "search_destinations"}
        => /\ ~ret.raised
           /\ SuccessFields \subseteq DOMAIN ret.value

\* C16 witness: get_destination_info, with the embedding of the query and the
\* assembly of the context both raising, returned the four fields.
C16_Witness ==
    /\ ret.op = "get_destination_info"
    /\ ret.args.scenario.fault = "embed"
    /\ ret.args.scenario.contextFails
    /\ ~ret.raised
    /\ DOMAIN ret.value = {"destination", "summary", "documents", "context"}
    /\ ret.value.documents = <<>>

\* C17: when the retrieval under search_destinations fails, the result has
\* destinations = [], count = 0 and an error field.
C17_FailedSearchCarriesError ==
    (ret.op = "search_destinations" /\ ret.args.fault # "none")
        => /\ ret.value.destinations = <<>>
           /\ ret.value.count = 0
           /\ "error" \in DOMAIN ret.value

\* the destination tags among a list of retrieved items, but "general"
DistinctTags(items) ==
    {tag \in {items[i].metadata.destination : i \in 1..Len(items)} :
        tag # "" /\ tag \notin {"general", "General", "GENERAL"}}

\* C18: search_destinations returns one entry for each distinct destination
\* tag among the at most 10 items retrieved, no entry tagged "general" in
\* any letter case, no two entries with the same destination, and count is
\* the number of entries.
C18_OneEntryPerDestination ==
    ret.op = "search_destinations" =>
        LET entries == ret.value.destinations
        IN /\ \E r \in retrieve_relevant_context(
                          collection, deleted,
                          "destinations and places to visit in " \o ret.args.search_term,
                          10, None, None,
                          ret.args.fault = "embed", ret.args.fault = "query") :
                 /\ Len(r.value) <= 10
                 /\ {entries[i].destination : i \in 1..Len(entries)} = DistinctTags(r.value)
           /\ \A i, j \in 1..Len(entries) :
                 entries[i].destination = entries[j].destination => i = j
           /\ \A i \in 1..Len(entries) : Lower(entries[i].destination) # "general"
           /\ ret.value.count = Len(entries)

\* C18 witness: the index holds a document tagged Paris and one tagged
\* General, and search_destinations returned the one entry Paris.
C18_Witness ==
    /\ \E id \in DOMAIN collection : collection[id].metadata.destination = "General"
    /\ \E id \in DOMAIN collection : collection[id].metadata.destination = "Paris"
    /\ ret.op = "search_destinations"
    /\ ret.value.destinations = <<[destination |-> "Paris"]>>
    /\ ret.value.count = 1

\* C19: add_travel_documents does not raise; when the embedding fails it
\* returns status "error" and documents_added 0 and the count of the index
\* is unchanged; when it returns status "success", documents_added is the
\* size of the batch and the whole batch was stored.
C19_SuccessMeansBatchStored ==
    [][ret'.op = "add_travel_documents" =>
          /\ ~ret'.raised
          /\ ret'.args.fault = "embed"
                => /\ ret'.value.status = "error"
                   /\ ret'.value.documents_added = 0
                   /\ Cardinality(DOMAIN collection') = Cardinality(DOMAIN collection)
          /\ ret'.value.status = "success"
                => /\ ret'.value.documents_added = Len(ret'.args.documents)
                   /\ Cardinality(DOMAIN collection')
                         = Cardinality(DOMAIN collection) + Len(ret'.args.documents)]_vars

\* what the search in flight may return over the collection coll
ResultsOver(coll, queryFails) ==
    {r.value : r \in search(coll, deleted, reader.query, reader.n_results, None,
                            FALSE, queryFails)}

\* the collection after the whole batch of the latest add_documents call
AfterBatch == add_documents(writer.pre, FALSE, writer.documents, FALSE, FALSE).collection

C21_ClearedIndexReportsZero ==
    [][(/\ ret'.op = "delete_collection"
        /\ ~ret'.raised
        /\ DOMAIN collection # {})
          => LET stats == get_collection_stats(collection', deleted', FALSE)
             IN /\ "total_documents" \in DOMAIN stats
                /\ stats.total_documents = 0
                /\ \A query \in Queries, n_results \in NResults :
                      \A r \in search(collection', deleted', query, n_results, None,
                                      FALSE, FALSE) : r.value = <<>>]_vars

\* C30: after delete_collection, add_documents of a batch D whose documents
\* all have a content succeeds on the same store, and the statistics then
\* report total_documents = |D|.
C30_StoreUsableAfterDelete ==
    [][(/\ deleted
        /\ ret'.op = "add_documents"
        /\ ret'.args.fault = "none"
        /\ \A i \in 1..Len(ret'.args.documents) :
              "content" \in DOMAIN ret'.args.documents[i])
          => LET stats == get_collection_stats(collection', deleted', FALSE)
             IN /\ ~ret'.raised
                /\ "total_documents" \in DOMAIN stats
                /\ stats.total_documents = Len(ret'.args.documents)]_vars

\* the texts of the fields of the preferences that make a part of the query,
\* in the order destination, budget, duration, interests
PresentFields(preferences) ==
    LET text(key) ==
            IF PrefHas(preferences, key)
            THEN <<IF key = "interests"
                   THEN Join(PrefGet(preferences, key)[1].items, ", ")
                   ELSE PrefGet(preferences, key)[1].items[1]>>
            ELSE <<>>
    IN text("destination") \o text("budget") \o text("duration") \o text("interests")

\* the texts occur in s one after the other
RECURSIVE InOrder(_, _)
InOrder(s, texts) ==
    \/ texts = <<>>
    \/ /\ Contains(s, Head(texts))
       /\ InOrder(SubSeq(s, Find(s, Head(texts)) + Len(Head(texts)), Len(s)), Tail(texts))

\* the preferences without the travel_style field
WithoutStyle(preferences) == SelectSeq(preferences, LAMBDA e : e.key # "travel_style")

\* C22: the query of get_travel_recommendations holds a part for each of
\* destination, budget, duration and interests that is present, in this
\* order whatever the order of the fields, interests joined by ", "; it is
\* "travel recommendations" when none is present; travel_style does not
\* change it; the retrieval asks for 8 items, filtered by the destination
\* exactly when one is present.
C22_RecommendationQueryAndFilter ==
    ret.op = "get_travel_recommendations" =>
        LET p == ret.args.user_preferences
            q == RecommendationQuery(p)
            joinable == ~(PrefHas(p, "interests") /\ JoinRaises(PrefGet(p, "interests")[1]))
        IN /\ joinable => InOrder(q, PresentFields(p))
           /\ PresentFields(p) = <<>> => q = "travel recommendations"
           /\ PresentFields(p) # <<>> => ~Contains(q, "travel recommendations")
           /\ q = RecommendationQuery(WithoutStyle(p))
           /\ joinable =>
                 ret.value \in
                    {r.value : r \in retrieve_relevant_context(
                                        collection, deleted, q, 8,
                                        IF PrefHas(p, "destination")
                                        THEN Some(PrefGet(p, "destination")[1].items[1])
                                        ELSE None,
                                        None,
                                        ret.args.fault = "embed",
                                        ret.args.fault = "query")}
           /\ Len(ret.value) <= 8

\* C22 witness: for preferences that list interests, duration and destination
\* in this order, with documents for Rome and for Paris in the index, the
\* query names Rome, 3 days and Food in the fixed order and only the document
\* for Rome came back.
C22_Witness ==
    /\ ret.op = "get_travel_recommendations"
    /\ ret.args.user_preferences = PrefsTrip
    /\ RecommendationQuery(PrefsTrip) = "travel to Rome 3 days activities: Food"
    /\ \E id \in DOMAIN collection : collection[id].metadata.destination = "Paris"
    /\ Len(ret.value) = 1
    /\ ret.value[1].metadata.destination = "Rome"

\* C23: get_destination_info(destination) of the retriever returns at most 5
\* items, each tagged with exactly the destination asked for.
C23_OnlyTheDestinationAsked ==
    ret.op = "retriever.get_destination_info" =>
        /\ Len(ret.value) <= 5
        /\ \A i \in 1..Len(ret.value) :
              ret.value[i].metadata.destination = ret.args.destination

\* C24: every record add_documents stores carries the fields of its
\* document, with destination "general" for a document without a
\* destination and category "guide" for a document without a category.
C24_DefaultTags ==
    [][(ret'.op = "add_documents" /\ ~ret'.raised /\ DOMAIN collection = {})
          => \A i \in 1..Len(ret'.args.documents) :
                LET doc == ret'.args.documents[i]
                    metadata == collection'[ret'.value[i]].metadata
                IN /\ metadata.destination = Get(doc, "destination", "general")
                   /\ metadata.category = Get(doc, "category", "guide")]_vars

\* C25: get_system_stats always returns the statistics of the index with
\* total_documents, the number of records, and the identity of the backend
\* (model name and temperature), also when the statistics cannot be read.
C25_StatsAlwaysComplete ==
    ret.op = "get_system_stats" =>
        /\ DOMAIN ret.value = {"vector_store_stats", "model_info"}
        /\ ret.value.model_info =
              [generator_model |-> DefaultModelName, temperature |-> DefaultTemperature]
        /\ "total_documents" \in DOMAIN ret.value.vector_store_stats
        /\ ret.value.vector_store_stats.total_documents = Cardinality(DOMAIN collection)

\* C29: process_query, create_travel_plan, get_destination_info,
\* search_destinations and get_system_stats leave the records of the index
\* as they are, on their failure paths too.
C29_ReadOperationsDoNotWrite ==
    [][ret'.op \in {"process_query", "create_travel_plan", "get_destination_info",
                    "search_destinations", "get_system_stats"}
          => (collection' = collection /\ deleted' = deleted)]_vars

\* C29 witness: over the sample knowledge base get_system_stats could not
\* read the statistics, and the five records are still indexed.
C29_Witness ==
    /\ ret.op = "get_system_stats"
    /\ ret.args.countFails
    /\ ret.value.vector_store_stats = <<>>
    /\ Cardinality(DOMAIN collection) = 5

\* the lines of a text, none for the empty text
RECURSIVE Lines(_)
Lines(text) ==
    IF text = "" THEN <<>>
    ELSE IF Contains(text, "\n")
    THEN <<SubSeq(text, 1, Find(text, "\n") - 1)>>
            \o Lines(SubSeq(text, Find(text, "\n") + 1, Len(text)))
    ELSE <<text>>

\* the positions of the fields with a non-empty value, in iteration order
NonEmptyFields(preferences) ==
    SelectSeq([i \in 1..Len(preferences) |-> i],
              LAMBDA i : IF preferences[i].isList THEN preferences[i].items # <<>>
                         ELSE preferences[i].items[1] # "")

\* C26: _format_preferences writes one line "key: value" for every field
\* with a non-empty value, in the iteration order of the fields, a list value
\* joined by ", ", and no line for an empty value.
C26_OneLinePerPresentField ==
    (ret.op = "_format_preferences" /\ ~ret.raised) =>
        LET p == ret.args.preferences
            lines == Lines(ret.value)
            fields == NonEmptyFields(p)
        IN /\ Len(lines) = Len(fields)
           /\ \A k \in 1..Len(fields) :
                 lines[k] = p[fields[k]].key \o ": "
                               \o (IF p[fields[k]].isList
                                   THEN Join(p[fields[k]].items, ", ")
                                   ELSE p[fields[k]].items[1])

\* C26 witness: of the four fields travel_style, budget (empty), interests
\* (empty list) and duration, the two with a value were written, in this
\* order.
C26_Witness ==
    /\ ret.op = "_format_preferences"
    /\ ret.args.preferences = PrefsStyle
    /\ ret.value = "travel_style: relaxed\nduration: 7"

\* C27: the variant chosen at construction stays: no generate_* call and no
\* change of the credential changes llm, and generate_travel_response answers
\* with the mock text exactly when no credential was present at
\* construction.
C27_VariantFixedAtConstruction ==
    [][/\ llm' = llm
       /\ ret'.op = "generate_travel_response"
             => ((llm = None)
                   <=> (ret'.value = generate_mock_response(ret'.args.query,
                                                            ret'.args.context)))]_vars

\* C27 witness: the generator was constructed without a credential, one was
\* set later, and generate_travel_response still answered with the mock
\* text.
C27_Witness ==
    /\ llm = None
    /\ environ # ""
    /\ ret.op = "generate_travel_response"
    /\ ret.value = generate_mock_response(ret.args.query, ret.args.context)

\* C28: with no clear in between, every add_travel_documents that reports
\* success keeps every record the index held and raises the number of records
\* by the documents_added it reports, so total_documents is the sum of the
\* documents_added of the successful calls.
C28_TotalIsSumOfAdded ==
    [][(ret'.op = "add_travel_documents" /\ ret'.value.status = "success") =>
          /\ \A id \in DOMAIN collection :
                id \in DOMAIN collection' /\ collection'[id] = collection[id]
          /\ get_collection_stats(collection', deleted', FALSE).total_documents
                = get_collection_stats(collection, deleted, FALSE).total_documents
                     + ret'.value.documents_added]_vars

====
